---------------------------- MODULE Spec2Model ----------------------------
(***************************************************************************)
(* Model of cc_pseudo_crawl/pseudo_crawl_seed_to_lm_dset.py: the boilerplate *)
(* line detector (get_lines_to_skip), the page processor (filter_lines,     *)
(* process_page), the corpus writer (make_seed_jsonl), the upload           *)
(* (push_jsonl_to_hub) and the orchestration (main).                        *)
(*                                                                         *)
(* A Python str is a sequence of one-character strings.  A Python dict is  *)
(* a function whose DOMAIN is its key set.  A dataset split is a sequence  *)
(* of runs [page, n, vary] of n consecutive rows, so that a split of 10000 *)
(* rows stays representable: the rows of a run all hold the record page,   *)
(* or, when vary is set, the k-th row holds page with one more line of     *)
(* text that no other row of the run has.  The loops over a split step     *)
(* through it one block of identical consecutive rows at a time.           *)
(***************************************************************************)
EXTENDS Integers, Sequences, FiniteSets, TLC

VARIABLES
    pc,               \* control position of the running function
    exc,              \* name of the exception that ended the run, "" if none
    push_to_hub,      \* args.push_to_hub
    token,            \* args.token
    gzipped,          \* args.gzipped / make_seed_jsonl's gzipped
    dset,             \* dset["train"], as a sequence of runs
    dset_sample,      \* get_lines_to_skip: the selected sample
    sample_rows,      \* get_lines_to_skip: number of indices the sample holds
    di,               \* get_lines_to_skip: rows of the sample iterated so far
    line_counts,      \* get_lines_to_skip: line_counts
    seen_pages,       \* get_lines_to_skip: seen_pages
    skip_lines_dict,  \* the skip dictionary returned / passed to the writer
    min_chars,        \* make_seed_jsonl's min_chars
    f,                \* make_seed_jsonl: the output handle
    out,              \* the lines written to the artifact, as runs [data, n]
    duplicated,       \* make_seed_jsonl: duplicated
    wr,               \* make_seed_jsonl: rows of dset["train"] iterated so far
    ret,              \* make_seed_jsonl's return value (file_name, repo_name)
    hub_calls,        \* HfApi calls made so far
    first,            \* the outcome of a first writer run kept for comparison
    filtered,         \* filter_lines' accumulators and results
    page_in,          \* process_page: the page given
    processed_dct     \* process_page's result

vars == << pc, exc, push_to_hub, token, gzipped, dset, dset_sample, sample_rows,
           di, line_counts, seen_pages, skip_lines_dict, min_chars, f, out,
           duplicated, wr, ret, hub_calls, first, filtered, page_in, processed_dct >>

detect_vars == << dset_sample, sample_rows, di, line_counts, seen_pages >>
writer_vars == << f, out, duplicated, wr, ret >>
arg_vars == << push_to_hub, token, gzipped, dset >>
filter_vars == << filtered, page_in, processed_dct >>

----------------------------------------------------------------------------
(* Bounds of the model. *)

MaxTextLen == 4        \* characters of a text given to filter_lines
MaxWriterRuns == 3     \* rows of a dataset given to make_seed_jsonl alone
MaxDetectRuns == 3     \* runs of a dataset given to get_lines_to_skip alone
MaxHundreds == 11      \* hundreds of distinct pages in a sample
MaxMainRuns == 2       \* runs of a dataset loaded by main

(* Program constants. *)

SampleCap == 10000     \* range(10000)
ThresFloor == 10       \* max(10, ...)
ThresDivisor == 100    \* len(seen_pages) // 100
MainMinChars == 128    \* min_chars=128 in main

----------------------------------------------------------------------------
(* Python str and dict operations. *)

Whitespace == {" ", "\n", "\t"}

RECURSIVE LStrip(_)
LStrip(s) ==
    IF s # << >> /\ Head(s) \in Whitespace THEN LStrip(Tail(s)) ELSE s

RECURSIVE RStrip(_)
RStrip(s) ==
    IF s # << >> /\ s[Len(s)] \in Whitespace
    THEN RStrip(SubSeq(s, 1, Len(s) - 1))
    ELSE s

\* str.strip()
Strip(s) == RStrip(LStrip(s))

LowerChar(c) ==
    CASE c = "A" -> "a"
      [] c = "B" -> "b"
      [] OTHER -> c

\* str.lower()
Lower(s) == [i \in 1..Len(s) |-> LowerChar(s[i])]

\* str.split("\n")
RECURSIVE Split(_)
Split(s) ==
    IF \E i \in 1..Len(s) : s[i] = "\n"
    THEN LET k == CHOOSE i \in 1..Len(s) :
                    /\ s[i] = "\n"
                    /\ \A j \in 1..(i - 1) : s[j] # "\n"
         IN  << SubSeq(s, 1, k - 1) >> \o Split(SubSeq(s, k + 1, Len(s)))
    ELSE << s >>

\* "\n".join(lines)
RECURSIVE Join(_)
Join(lines) ==
    IF lines = << >> THEN << >>
    ELSE IF Len(lines) = 1 THEN lines[1]
    ELSE lines[1] \o << "\n" >> \o Join(Tail(lines))

EmptyDict == << >>

\* d.get(k, default)
DictGet(d, k, default) == IF k \in DOMAIN d THEN d[k] ELSE default

\* d[k] = v
DictSet(d, k, v) == (k :> v) @@ d

Max(a, b) == IF a >= b THEN a ELSE b

----------------------------------------------------------------------------
(* Page processor. *)

\* get_meta_dict(page)
GetMetaDict(page) ==
    [url |-> page.url,
     content_languages |-> page.content_languages,
     seed_id |-> page.seed_id]

\* line.strip() for each line of article.split("\n")
StrippedLines(text) ==
    LET raw == Split(text) IN [i \in 1..Len(raw) |-> Strip(raw[i])]

\* SkipsLine testing for the key only, whatever it is mapped to
SkipsLineAnyValue(skip_dict, line) == line \in DOMAIN skip_dict

\* skip_dict.get(line, False)
SkipsLine(skip_dict, line) == DictGet(skip_dict, line, FALSE)

\* the for loop of filter_lines: acc is (keep, skip)
RECURSIVE FilterLoop(_, _, _)
FilterLoop(lines, skip_dict, acc) ==
    IF lines = << >> THEN acc
    ELSE LET line == Head(lines)
         IN  IF SkipsLine(skip_dict, line)
             THEN FilterLoop(Tail(lines), skip_dict,
                             [keep |-> acc.keep, skip |-> acc.skip \o << line >>])
             ELSE FilterLoop(Tail(lines), skip_dict,
                             [keep |-> acc.keep \o << line >>, skip |-> acc.skip])

\* filter_lines(article, skip_dict), with the two accumulators it built
FilterLines(text, skip_dict) ==
    LET acc == FilterLoop(StrippedLines(text), skip_dict,
                          [keep |-> << >>, skip |-> << >>])
    IN  [text |-> Strip(Join(acc.keep)),
         skipped |-> Strip(Join(acc.skip)),
         keep |-> acc.keep,
         skip |-> acc.skip]

\* process_page(page, skip_dict)
ProcessPage(page, skip_dict) ==
    [meta |-> GetMetaDict(page),
     text |-> FilterLines(page.text, skip_dict).text]

----------------------------------------------------------------------------
(* Datasets: sequences of runs [page |-> record, n |-> rows, vary |-> flag]. *)

\* len(dset["train"])
RECURSIVE NumRows(_)
NumRows(d) == IF d = << >> THEN 0 ELSE d[1].n + NumRows(Tail(d))

\* the rows with indices 0 .. k-1
RECURSIVE Take(_, _)
Take(d, k) ==
    IF k = 0 \/ d = << >> THEN << >>
    ELSE IF d[1].n <= k THEN << d[1] >> \o Take(Tail(d), k - d[1].n)
    ELSE << [d[1] EXCEPT !.n = k] >>

\* the k-th row of a run that varies: the run's page and a line of its own
VaryPage(page, k) == [page EXCEPT !.text = @ \o << "\n", ToString(k) >>]

\* the row with index i (i < len) and the number of consecutive rows from it
\* on that hold the same record
RECURSIVE BlockAt(_, _)
BlockAt(d, i) ==
    LET r == d[1]
    IN  IF i >= r.n THEN BlockAt(Tail(d), i - r.n)
        ELSE IF r.vary THEN [page |-> VaryPage(r.page, i + 1), n |-> 1]
        ELSE [page |-> r.page, n |-> r.n - i]

----------------------------------------------------------------------------
(* Boilerplate line detector: get_lines_to_skip. *)

\* PageIsNew without the look-up in seen_pages
PageIsNewAlways(seen, text) == TRUE

\* not seen_pages.get(article, False)
PageIsNew(seen, text) == ~DictGet(seen, text, FALSE)

\* for line in article.split("\n"): line_counts[line.strip()] = ... + 1
RECURSIVE CountLoop(_, _)
CountLoop(counts, lines) ==
    IF lines = << >> THEN counts
    ELSE CountLoop(DictSet(counts, Head(lines), DictGet(counts, Head(lines), 0) + 1),
                   Tail(lines))

CountLines(counts, text) == CountLoop(counts, StrippedLines(text))

\* max(10, len(seen_pages) // 100)
ThresSkip(seen) == Max(ThresFloor, Cardinality(DOMAIN seen) \div ThresDivisor)

\* OverThres with ct >= thres_skip
OverThresInclusive(ct, thres) == ct >= thres

\* ct > thres_skip
OverThres(ct, thres) == ct > thres

\* {line: True for line, ct in line_counts.items() if ct > thres_skip}
SkipDictOf(counts, thres) ==
    [line \in {l \in DOMAIN counts : OverThres(counts[l], thres)} |-> TRUE]

\* lines 110-112 when the split holds at least 10000 rows
DetectSelect ==
    /\ pc = "d_select"
    /\ NumRows(dset) >= SampleCap
    /\ line_counts' = EmptyDict
    /\ seen_pages' = EmptyDict
    /\ dset_sample' = Take(dset, SampleCap)
    /\ sample_rows' = SampleCap
    /\ di' = 0
    /\ pc' = "d_loop"
    /\ UNCHANGED << exc, arg_vars, skip_lines_dict, min_chars, writer_vars,
                    hub_calls, first, filter_vars >>

\* line 112 on a shorter split, when select() validates its indices: it raises
DetectSelectRaises ==
    /\ pc = "d_select"
    /\ NumRows(dset) < SampleCap
    /\ line_counts' = EmptyDict
    /\ seen_pages' = EmptyDict
    /\ pc' = "error"
    /\ exc' = "IndexError"
    /\ UNCHANGED << arg_vars, dset_sample, sample_rows, di, skip_lines_dict,
                    min_chars, writer_vars, hub_calls, first, filter_vars >>

\* line 112 on a shorter split, when select() only records the 10000 indices:
\* the rows that exist are iterated and the first missing one raises
DetectSelectUnchecked ==
    /\ pc = "d_select"
    /\ NumRows(dset) < SampleCap
    /\ line_counts' = EmptyDict
    /\ seen_pages' = EmptyDict
    /\ dset_sample' = dset
    /\ sample_rows' = SampleCap
    /\ di' = 0
    /\ pc' = "d_loop"
    /\ UNCHANGED << exc, arg_vars, skip_lines_dict, min_chars, writer_vars,
                    hub_calls, first, filter_vars >>

\* lines 113-118 over the next block of identical rows of the sample.  The
\* first row runs the body; the block's other rows hold the same text, which
\* the first has put in seen_pages, so their iterations change nothing.
DetectLoopRun ==
    /\ pc = "d_loop"
    /\ di < NumRows(dset_sample)
    /\ LET block == BlockAt(dset_sample, di)
           text == block.page.text
       IN  /\ IF PageIsNew(seen_pages, text)
              THEN /\ seen_pages' = DictSet(seen_pages, text, TRUE)
                   /\ line_counts' = CountLines(line_counts, text)
              ELSE UNCHANGED << seen_pages, line_counts >>
           /\ di' = di + block.n
    /\ UNCHANGED << pc, exc, arg_vars, dset_sample, sample_rows, skip_lines_dict,
                    min_chars, writer_vars, hub_calls, first, filter_vars >>

\* line 113 reaching an index the split does not hold
DetectLoopIndexError ==
    /\ pc = "d_loop"
    /\ di = NumRows(dset_sample)
    /\ di < sample_rows
    /\ pc' = "error"
    /\ exc' = "IndexError"
    /\ UNCHANGED << arg_vars, detect_vars, skip_lines_dict, min_chars,
                    writer_vars, hub_calls, first, filter_vars >>

\* lines 119-120
DetectReturn ==
    /\ pc = "d_loop"
    /\ di = NumRows(dset_sample)
    /\ di = sample_rows
    /\ skip_lines_dict' = SkipDictOf(line_counts, ThresSkip(seen_pages))
    /\ pc' = "d_returned"
    /\ UNCHANGED << exc, arg_vars, detect_vars, min_chars, writer_vars,
                    hub_calls, first, filter_vars >>

NextDetect ==
    \/ DetectSelect
    \/ DetectSelectRaises
    \/ DetectSelectUnchecked
    \/ DetectLoopRun
    \/ DetectLoopIndexError
    \/ DetectReturn

----------------------------------------------------------------------------
(* Corpus writer: make_seed_jsonl. *)

LanguageCode == "en"
SiteName == "site"

\* f"lm_{language}_pseudocrawl_{name}"
RepoName == << "lm_", LanguageCode, "_pseudocrawl_", SiteName >>

NoHandle ==
    [file_name |-> [repo |-> << >>, ext |-> ""],
     binary |-> FALSE, gz |-> FALSE, state |-> "unopened"]

NoReturn == [file_name |-> [repo |-> << >>, ext |-> ""], repo_name |-> << >>]

\* gzip.open(file_name, "w"): a binary handle that compresses what it is given;
\* open(file_name, "w", encoding="utf-8"): a text handle
OpenHandle(gz) ==
    IF gz
    THEN [file_name |-> [repo |-> RepoName, ext |-> ".jsonl.gz"],
          binary |-> TRUE, gz |-> TRUE, state |-> "open"]
    ELSE [file_name |-> [repo |-> RepoName, ext |-> ".jsonl"],
          binary |-> FALSE, gz |-> FALSE, state |-> "open"]

\* json.dumps(processed_dct) + "\n": a str holding one JSON object and a newline
JsonLine(obj) == [type |-> "str", json |-> obj]

\* s.encode("utf-8"): the same characters as bytes
Utf8Encode(s) == [type |-> "bytes", json |-> s.json]

\* f.write(data) is accepted: a text handle takes str only, a binary one bytes only
WriteAccepted(handle, data) ==
    IF handle.binary THEN data.type = "bytes" ELSE data.type = "str"

\* FileWrite putting the lines at the start of the file
FileWritePrepends(content, data, n) == << [data |-> data, n |-> n] >> \o content

\* the file after n accepted writes of data, each at the end of the file
FileWrite(content, data, n) == Append(content, [data |-> data, n |-> n])

\* processed_dct["text"].strip().lower()
NormText(text) == Lower(Strip(text))

\* LongEnough with len(...) >= min_chars
LongEnoughInclusive(text, mc) == Len(text) >= mc

\* len(processed_dct["text"]) > min_chars
LongEnough(text, mc) == Len(text) > mc

\* the condition of line 137
Emits(text, mc, dup) == LongEnough(text, mc) /\ NormText(text) \notin dup

\* lines 125-133
WriterOpen ==
    /\ pc = "w_open"
    /\ f' = OpenHandle(gzipped)
    /\ out' = << >>
    /\ duplicated' = {}
    /\ wr' = 0
    /\ pc' = "w_loop"
    /\ UNCHANGED << exc, arg_vars, detect_vars, skip_lines_dict, min_chars, ret,
                    hub_calls, first, filter_vars >>

\* lines 134-138 over the next block of identical rows, when they pass the
\* test of line 137 and the write is accepted.  duplicated is never assigned
\* to, so every row of the block passes the same test and is written.
WriterWrite ==
    /\ pc = "w_loop"
    /\ wr < NumRows(dset)
    /\ LET block == BlockAt(dset, wr)
           dct == ProcessPage(block.page, skip_lines_dict)
           data == Utf8Encode(JsonLine(dct))
       IN  /\ Emits(dct.text, min_chars, duplicated)
           /\ WriteAccepted(f, data)
           /\ out' = FileWrite(out, data, block.n)
           /\ wr' = wr + block.n
    /\ UNCHANGED << pc, exc, arg_vars, detect_vars, skip_lines_dict, min_chars,
                    f, duplicated, ret, hub_calls, first, filter_vars >>

\* line 138 on a handle that does not take bytes: TypeError, and the function
\* is left without reaching f.close()
WriterWriteRaises ==
    /\ pc = "w_loop"
    /\ wr < NumRows(dset)
    /\ LET block == BlockAt(dset, wr)
           dct == ProcessPage(block.page, skip_lines_dict)
           data == Utf8Encode(JsonLine(dct))
       IN  /\ Emits(dct.text, min_chars, duplicated)
           /\ ~WriteAccepted(f, data)
    /\ pc' = "error"
    /\ exc' = "TypeError"
    /\ UNCHANGED << arg_vars, detect_vars, skip_lines_dict, min_chars,
                    writer_vars, hub_calls, first, filter_vars >>

\* lines 134-137 over the next block of identical rows, when they fail the
\* test of line 137
WriterDrop ==
    /\ pc = "w_loop"
    /\ wr < NumRows(dset)
    /\ LET block == BlockAt(dset, wr)
           dct == ProcessPage(block.page, skip_lines_dict)
       IN  /\ ~Emits(dct.text, min_chars, duplicated)
           /\ wr' = wr + block.n
    /\ UNCHANGED << pc, exc, arg_vars, detect_vars, skip_lines_dict, min_chars,
                    f, out, duplicated, ret, hub_calls, first, filter_vars >>

\* lines 139-140
WriterClose ==
    /\ pc = "w_loop"
    /\ wr = NumRows(dset)
    /\ f' = [f EXCEPT !.state = "closed"]
    /\ ret' = [file_name |-> f.file_name, repo_name |-> RepoName]
    /\ pc' = "w_returned"
    /\ UNCHANGED << exc, arg_vars, detect_vars, skip_lines_dict, min_chars, out,
                    duplicated, wr, hub_calls, first, filter_vars >>

NextWriter ==
    \/ WriterOpen
    \/ WriterWrite
    \/ WriterWriteRaises
    \/ WriterDrop
    \/ WriterClose

----------------------------------------------------------------------------
(* Upload and orchestration: push_jsonl_to_hub, main. *)

\* ArgsAccepted without the assertion
ArgsAcceptedAlways(push, tok) == TRUE

\* not (args.push_to_hub and args.token == "")
ArgsAccepted(push, tok) == ~(push /\ tok = "")

\* line 213, the assertion failing
MainAssertFails ==
    /\ pc = "main"
    /\ ~ArgsAccepted(push_to_hub, token)
    /\ pc' = "error"
    /\ exc' = "AssertionError"
    /\ UNCHANGED << arg_vars, detect_vars, skip_lines_dict, min_chars,
                    writer_vars, hub_calls, first, filter_vars >>

\* lines 213-225: the assertion passes, the dataset is loaded and
\* get_lines_to_skip is called
MainLoad ==
    /\ pc = "main"
    /\ ArgsAccepted(push_to_hub, token)
    /\ pc' = "d_select"
    /\ UNCHANGED << exc, arg_vars, detect_vars, skip_lines_dict, min_chars,
                    writer_vars, hub_calls, first, filter_vars >>

\* lines 226-233: make_seed_jsonl is called with min_chars=128
MainMakeSeedJsonl ==
    /\ pc = "d_returned"
    /\ min_chars' = MainMinChars
    /\ pc' = "w_open"
    /\ UNCHANGED << exc, arg_vars, detect_vars, skip_lines_dict, writer_vars,
                    hub_calls, first, filter_vars >>

\* line 234, push_to_hub false
MainNoPush ==
    /\ pc = "w_returned"
    /\ ~push_to_hub
    /\ pc' = "done"
    /\ UNCHANGED << exc, arg_vars, detect_vars, skip_lines_dict, min_chars,
                    writer_vars, hub_calls, first, filter_vars >>

\* lines 234-235 and 144-150: api.create_repo
PushCreateRepo ==
    /\ pc = "w_returned"
    /\ push_to_hub
    /\ hub_calls' = Append(hub_calls,
                           [op |-> "create_repo", repo |-> ret.repo_name,
                            file |-> NoReturn.file_name, token |-> token])
    /\ pc' = "push_upload"
    /\ UNCHANGED << exc, arg_vars, detect_vars, skip_lines_dict, min_chars,
                    writer_vars, first, filter_vars >>

\* lines 151-157: api.upload_file
PushUploadFile ==
    /\ pc = "push_upload"
    /\ hub_calls' = Append(hub_calls,
                           [op |-> "upload_file", repo |-> ret.repo_name,
                            file |-> ret.file_name, token |-> token])
    /\ pc' = "done"
    /\ UNCHANGED << exc, arg_vars, detect_vars, skip_lines_dict, min_chars,
                    writer_vars, first, filter_vars >>

NextMain ==
    \/ MainAssertFails
    \/ MainLoad
    \/ NextDetect
    \/ MainMakeSeedJsonl
    \/ NextWriter
    \/ MainNoPush
    \/ PushCreateRepo
    \/ PushUploadFile

----------------------------------------------------------------------------
(* Page processor applied to one page. *)

NoFiltered == [text |-> << >>, skipped |-> << >>, keep |-> << >>, skip |-> << >>]

\* process_page(page, skip_dict), keeping what its call of filter_lines built
ProcessPageCall ==
    /\ pc = "p_call"
    /\ filtered' = FilterLines(page_in.text, skip_lines_dict)
    /\ processed_dct' = ProcessPage(page_in, skip_lines_dict)
    /\ pc' = "p_returned"
    /\ UNCHANGED << exc, arg_vars, detect_vars, skip_lines_dict, min_chars,
                    writer_vars, hub_calls, first, page_in >>

NextFilter == ProcessPageCall

----------------------------------------------------------------------------
(* The writer run a second time on the same arguments, with gzipped=True. *)

NoFirst == [pc |-> "", exc |-> "", out |-> << >>, ext |-> ""]

Rerun ==
    /\ pc \in {"w_returned", "error"}
    /\ first = NoFirst
    /\ ~gzipped
    /\ first' = [pc |-> pc, exc |-> exc, out |-> out, ext |-> f.file_name.ext]
    /\ gzipped' = TRUE
    /\ exc' = ""
    /\ pc' = "w_open"
    /\ UNCHANGED << push_to_hub, token, dset, detect_vars, skip_lines_dict,
                    min_chars, writer_vars, hub_calls, filter_vars >>

NextCompress == NextWriter \/ Rerun

----------------------------------------------------------------------------
(* Inputs. *)

SeqsUpTo(S, n) == UNION {[1..k -> S] : k \in 0..n}

\* a page record; depth stands for the fields get_meta_dict leaves out
MakePage(url, seed_id, text) ==
    [url |-> url, content_languages |-> "en", seed_id |-> seed_id,
     text |-> text, depth |-> 0]

NoPage == MakePage("", 0, << >>)

Repeat(x, n) == [i \in 1..n |-> x]

FilterChars == {"a", "b", " ", "\n"}

FilterPages ==
    {MakePage(m[1], m[2], t) : m \in {<< "u1", 1 >>, << "u2", 2 >>},
                               t \in SeqsUpTo(FilterChars, MaxTextLen)}

FilterSkipDicts ==
    UNION {[K -> BOOLEAN] : K \in SUBSET {<< "a" >>, << "b" >>, << >>}}

WriterPages ==
    {MakePage("u1", 1, << "a" >>),
     MakePage("u2", 2, << "A" >>),
     MakePage("u1", 1, << "b", "\n", "a" >>),
     MakePage("u2", 2, << "a", "b" >>),
     MakePage("u1", 1, << " ", "a", " " >>),
     MakePage("u1", 1, << "b" >>)}

WriterDatasets ==
    SeqsUpTo({[page |-> p, n |-> 1, vary |-> FALSE] : p \in WriterPages},
             MaxWriterRuns)

WriterSkipDicts == {EmptyDict, (<< "b" >> :> TRUE)}

WriterMinChars == {0, 1}

DetectPages ==
    {MakePage("u1", 1, Join(Repeat(<< "a" >>, ThresFloor + 1))),
     MakePage("u1", 1, Join(Repeat(<< " ", "a" >>, ThresFloor))),
     MakePage("u1", 1, << "a" >>),
     MakePage("u2", 2, << "a" >>),
     MakePage("u2", 2, << "b", "\n", "a", " " >>)}

DetectDatasets ==
    SeqsUpTo({[page |-> p, n |-> k, vary |-> FALSE] :
                  p \in DetectPages, k \in {1, SampleCap - 2}},
             MaxDetectRuns)

\* samples of MaxHundreds hundreds of distinct pages, or one page fewer: a page
\* of MaxHundreds or MaxHundreds + 1 lines "a", then pages that differ in one
\* line, then copies of one page up to the sample cap or beyond it (or none)
ThresholdDatasets ==
    {<< [page |-> MakePage("u1", 1, Join(Repeat(<< "a" >>, lines))),
         n |-> 1, vary |-> FALSE],
        [page |-> MakePage("u1", 1, << "t" >>),
         n |-> MaxHundreds * ThresDivisor - less, vary |-> TRUE] >>
     \o (IF more < 0 THEN << >>
         ELSE << [page |-> MakePage("u2", 2, << "f" >>),
                  n |-> SampleCap - MaxHundreds * ThresDivisor + more,
                  vary |-> FALSE] >>) :
        lines \in {MaxHundreds, MaxHundreds + 1}, less \in {2, 3},
        more \in {-1, 1, 3}}


MainPages ==
    {MakePage("u1", 1, Repeat("a", MainMinChars + 1)),
     MakePage("u2", 1, << "a" >>)}

MainDatasets ==
    SeqsUpTo({[page |-> p, n |-> k, vary |-> FALSE] :
                  p \in MainPages, k \in {1, SampleCap - 1}},
             MaxMainRuns)

----------------------------------------------------------------------------
(* Initial states and specifications. *)

InitDetectVars ==
    /\ dset_sample = << >>
    /\ sample_rows = 0
    /\ di = 0
    /\ line_counts = EmptyDict
    /\ seen_pages = EmptyDict

InitWriterVars ==
    /\ f = NoHandle
    /\ out = << >>
    /\ duplicated = {}
    /\ wr = 0
    /\ ret = NoReturn

InitFilterVars ==
    /\ filtered = NoFiltered
    /\ page_in = NoPage
    /\ processed_dct = ProcessPage(NoPage, EmptyDict)

\* main() entered with parsed arguments and an archive on disk
InitMain ==
    /\ pc = "main"
    /\ exc = ""
    /\ push_to_hub \in BOOLEAN
    /\ token \in {"", "hf_token"}
    /\ gzipped \in BOOLEAN
    /\ dset \in MainDatasets
    /\ skip_lines_dict = EmptyDict
    /\ min_chars = 0
    /\ hub_calls = << >>
    /\ first = NoFirst
    /\ InitDetectVars /\ InitWriterVars /\ InitFilterVars

\* get_lines_to_skip(dset) called on its own
InitDetect ==
    /\ pc = "d_select"
    /\ exc = ""
    /\ push_to_hub = FALSE
    /\ token = ""
    /\ gzipped = FALSE
    /\ dset \in DetectDatasets
    /\ skip_lines_dict = EmptyDict
    /\ min_chars = 0
    /\ hub_calls = << >>
    /\ first = NoFirst
    /\ InitDetectVars /\ InitWriterVars /\ InitFilterVars

\* get_lines_to_skip(dset) called on its own, large samples included
InitThreshold ==
    /\ pc = "d_select"
    /\ exc = ""
    /\ push_to_hub = FALSE
    /\ token = ""
    /\ gzipped = FALSE
    /\ dset \in DetectDatasets \cup ThresholdDatasets
    /\ skip_lines_dict = EmptyDict
    /\ min_chars = 0
    /\ hub_calls = << >>
    /\ first = NoFirst
    /\ InitDetectVars /\ InitWriterVars /\ InitFilterVars

\* make_seed_jsonl(dset, language, name, skip_lines_dict, min_chars, gzipped)
\* called on its own
InitWriter ==
    /\ pc = "w_open"
    /\ exc = ""
    /\ push_to_hub = FALSE
    /\ token = ""
    /\ gzipped \in BOOLEAN
    /\ dset \in WriterDatasets
    /\ skip_lines_dict \in WriterSkipDicts
    /\ min_chars \in WriterMinChars
    /\ hub_calls = << >>
    /\ first = NoFirst
    /\ InitDetectVars /\ InitWriterVars /\ InitFilterVars

InitCompress == InitWriter /\ ~gzipped

\* process_page(page, skip_dict) called on its own
InitFilter ==
    /\ pc = "p_call"
    /\ exc = ""
    /\ push_to_hub = FALSE
    /\ token = ""
    /\ gzipped = FALSE
    /\ dset = << >>
    /\ skip_lines_dict \in FilterSkipDicts
    /\ min_chars = 0
    /\ hub_calls = << >>
    /\ first = NoFirst
    /\ InitDetectVars /\ InitWriterVars
    /\ filtered = NoFiltered
    /\ page_in \in FilterPages
    /\ processed_dct = ProcessPage(NoPage, EmptyDict)

Init == InitMain

Next == NextMain

Spec == Init /\ [][Next]_vars

SpecDetect == InitDetect /\ [][NextDetect]_vars

SpecThreshold == InitThreshold /\ [][NextDetect]_vars

SpecWriter == InitWriter /\ [][NextWriter]_vars

SpecCompress == InitCompress /\ [][NextCompress]_vars

SpecFilter == InitFilter /\ [][NextFilter]_vars

----------------------------------------------------------------------------
(* Properties. *)

\* the processed text of the k-th line run of the artifact
OutText(k) == out[k].data.json.text

\* the blocks of identical rows that make up rows i+1 .. k of d
RECURSIVE Blocks(_, _, _)
Blocks(d, i, k) ==
    IF i >= k THEN << >>
    ELSE LET b == BlockAt(d, i) IN << b >> \o Blocks(d, i + b.n, k)

\* the text process_page gives for a block's page
BlockText(b) == ProcessPage(b.page, skip_lines_dict).text

\* the line make_seed_jsonl writes for each row of a block, as a run
MappedRun(b) ==
    [data |-> Utf8Encode(JsonLine(ProcessPage(b.page, skip_lines_dict))),
     n |-> b.n]

RECURSIVE IsSubseq(_, _)
IsSubseq(s, t) ==
    IF s = << >> THEN TRUE
    ELSE IF t = << >> THEN FALSE
    ELSE IF Head(s) = Head(t) THEN IsSubseq(Tail(s), Tail(t))
    ELSE IsSubseq(s, Tail(t))

IsPrefix(s, t) == Len(s) <= Len(t) /\ SubSeq(t, 1, Len(s)) = s

\* occurrences of the stripped line l in a page text
Occurrences(l, text) ==
    LET lines == StrippedLines(text)
    IN  Cardinality({i \in 1..Len(lines) : lines[i] = l})

RECURSIVE SumOccurrences(_, _)
SumOccurrences(l, texts) ==
    IF texts = {} THEN 0
    ELSE LET t == CHOOSE x \in texts : TRUE
         IN  Occurrences(l, t) + SumOccurrences(l, texts \ {t})

\* the distinct texts among the first k rows of the sample
SampleTexts(k) ==
    LET S == Take(dset_sample, k)
    IN  UNION {IF S[j].vary
               THEN {VaryPage(S[j].page, i).text : i \in 1..S[j].n}
               ELSE {S[j].page.text} : j \in 1..Len(S)}

LinesOf(texts) ==
    UNION {{StrippedLines(t)[i] : i \in 1..Len(StrippedLines(t))} : t \in texts}

\* a sequence of lines without its leading and trailing empty lines
RECURSIVE TrimBlank(_)
TrimBlank(lines) ==
    IF lines = << >> THEN lines
    ELSE IF Head(lines) = << >> THEN TrimBlank(Tail(lines))
    ELSE IF lines[Len(lines)] = << >> THEN TrimBlank(SubSeq(lines, 1, Len(lines) - 1))
    ELSE lines

(* C1: any two distinct records emitted into one artifact have different    *)
(* normalized (stripped, lower-cased) texts: of pages with the same         *)
(* normalized processed text only the first is written.                     *)
C1_NoDuplicates ==
    \A i, j \in 1..Len(out) :
        /\ out[i].n = 1
        /\ i # j => NormText(OutText(i)) # NormText(OutText(j))

C3_SubsequenceOfInput ==
    pc \in {"w_loop", "w_returned", "error"} =>
        LET B == Blocks(dset, 0, wr)
        IN  IsSubseq(out, [j \in 1..Len(B) |-> MappedRun(B[j])])

(* C3: the lines of the artifact are, in order, the lines of a subsequence  *)
(* of the rows iterated so far mapped through process_page, and a step of   *)
(* the loop only appends: what is written stays a prefix of the artifact.   *)
C3_OrderPreserved ==
    /\ [] C3_SubsequenceOfInput
    /\ [][pc = "w_loop" => IsPrefix(out, out')]_vars

C3_Witness ==
    /\ pc = "w_returned"
    /\ Len(out) = 2
    /\ out[1] # out[2]
    /\ Len(dset) = 3
    /\ out[1] = MappedRun(dset[1])
    /\ out[2] = MappedRun(dset[3])

C5_ShortInputDetects ==
    NumRows(dset) < SampleCap =>
        /\ pc # "error"
        /\ pc = "d_returned" => di = NumRows(dset)

(* C6: no create_repo or upload_file call is made with an empty token, and  *)
(* a run asked to push without a token stops with an error at the           *)
(* assertion, before a row is sampled or an artifact is opened.             *)
C6_CredentialGate ==
    /\ \A k \in 1..Len(hub_calls) : hub_calls[k].token # ""
    /\ (push_to_hub /\ token = "") =>
          /\ pc \in {"main", "error"}
          /\ pc = "error" => exc = "AssertionError"
          /\ hub_calls = << >>
          /\ di = 0 /\ seen_pages = EmptyDict /\ line_counts = EmptyDict
          /\ f = NoHandle /\ out = << >> /\ wr = 0

C6_Witness ==
    /\ push_to_hub
    /\ token = ""
    /\ pc = "error"
    /\ exc = "AssertionError"

(* C7: the writer run with gzipped=False and with gzipped=True on the same  *)
(* arguments completes both times and writes the same sequence of lines;    *)
(* only the wrapping and the file-name suffix differ.                       *)
C7_CompressionTransportOnly ==
    (first # NoFirst /\ pc \in {"w_returned", "error"}) =>
        /\ first.pc = "w_returned"
        /\ pc = "w_returned"
        /\ first.out = out
        /\ first.ext # f.file_name.ext

C9_LinePartition ==
    pc = "p_returned" =>
        LET lines == StrippedLines(page_in.text)
            Suppressed(l) == l \in DOMAIN skip_lines_dict /\ skip_lines_dict[l]
            Retained(l) == ~Suppressed(l)
            kept == SelectSeq(lines, Retained)
        IN  /\ filtered.skip = SelectSeq(lines, Suppressed)
            /\ filtered.keep = kept
            /\ Len(filtered.keep) + Len(filtered.skip) = Len(lines)
            /\ processed_dct.text = filtered.text
            /\ processed_dct.text = Strip(Join(kept))
            /\ Split(processed_dct.text) =
                  (IF TrimBlank(kept) = << >> THEN << << >> >> ELSE TrimBlank(kept))
            /\ DOMAIN processed_dct.meta = {"url", "content_languages", "seed_id"}
            /\ \A k \in DOMAIN processed_dct.meta : processed_dct.meta[k] = page_in[k]

C9_Witness ==
    /\ pc = "p_returned"
    /\ Len(filtered.skip) >= 1
    /\ Len(filtered.keep) >= 2
    /\ filtered.keep[1] # filtered.keep[2]
    /\ \E l \in DOMAIN skip_lines_dict : ~skip_lines_dict[l]

(* C10: whenever the writer is left, by returning or by an exception, the   *)
(* output handle has been closed.                                           *)
C10_HandleClosedOnExit ==
    pc \in {"w_returned", "error"} => f.state = "closed"

=============================================================================
